---- MODULE Spec2Model ----
(***************************************************************************)
(* Recipe conversion pipeline of src/preprocessing.py.                     *)
(*                                                                         *)
(* A table is an ordered list of column names, a row count, the cells of   *)
(* every column and a declared type per column.  A cell is a Python value: *)
(* absent (None / NaN / NaT), a string (a sequence of lexical tokens), a   *)
(* native list of scalars, a scalar number, or a timestamp.                *)
(*                                                                         *)
(* Every operation of the module is a function of its argument table; the  *)
(* state machine below is a caller who holds a table, calls one operation  *)
(* on it and may call another one on what came back.                       *)
(***************************************************************************)
EXTENDS Integers, Sequences, FiniteSets, TLC

\* ------------------------------------------------------------------------
\* Bounds of the model
\* ------------------------------------------------------------------------

\* Largest number of rows of an input table.
MaxRows == 2

\* Largest number of successive calls the caller makes.
MaxCalls == 2

\* Longest nutrition vector among the sampled inputs (longer than the 7 kept).
MaxVecLen == 8

\* ------------------------------------------------------------------------
\* Constants & schemas
\* ------------------------------------------------------------------------

NUTRITION_COLS ==
    <<"calories", "total_fat", "sugar", "sodium", "protein",
      "saturated_fat", "carbohydrates">>

DEFAULT_LIST_LIKE_COLS == <<"tags", "ingredients", "steps", "nutrition">>

\* ------------------------------------------------------------------------
\* Python values held by a cell
\* ------------------------------------------------------------------------

\* None, NaN and NaT: the values pd.isna() answers True for.
Absent == [k |-> "absent"]

\* A str, as the sequence of its lexical tokens (blanks dropped).
Str(s) == [k |-> "str", s |-> s]

\* A native list of scalars; an element is a number token or "None".
Lst(l) == [k |-> "list", l |-> l]

\* A scalar number written as its token (a parsed literal, an id, ...).
Num(t) == [k |-> "num", t |-> t]

\* An integer computed by the program (a calendar part).
IntVal(i) == [k |-> "int", i |-> i]

\* A pandas Timestamp of a calendar date.
Ts(y, m, d) == [k |-> "ts", y |-> y, m |-> m, d |-> d]

\* Number tokens, in the order used to fill sampled vectors.
NumToks == <<"1", "2", "3", "4", "5", "6", "7", "8", "9", "10">>

IsLiteralTok(t) == t = "None" \/ \E i \in 1..Len(NumToks) : NumToks[i] = t

\* The cell a list element becomes when it is stored in a column.
ElemCell(e) == IF e = "None" THEN Absent ELSE Num(e)

\* ------------------------------------------------------------------------
\* ast.literal_eval on the token form of a string
\* ------------------------------------------------------------------------

\* The tokens of s between its first and last token.
Inner(s) == SubSeq(s, 2, Len(s) - 1)

\* A comma-separated run of literals, a trailing comma allowed: literals at
\* the odd places, commas at the even ones.  (The sampled strings nest no
\* brackets, so a list display is one bracket pair around such a run.)
IsItemRun(ts) ==
    \A i \in 1..Len(ts) :
        IF i % 2 = 1 THEN IsLiteralTok(ts[i]) ELSE ts[i] = ","

\* ast.literal_eval(s): ok is FALSE where it raises ValueError or
\* SyntaxError (a name, an unclosed bracket, a stray comma, ...).
literal_eval(s) ==
    IF Len(s) = 1 /\ IsLiteralTok(s[1])
    THEN [ok |-> TRUE, val |-> ElemCell(s[1])]
    ELSE IF Len(s) >= 2 /\ s[1] = "[" /\ s[Len(s)] = "]" /\ IsItemRun(Inner(s))
    THEN [ok |-> TRUE,
          val |-> Lst([j \in 1..((Len(Inner(s)) + 1) \div 2) |-> Inner(s)[2 * j - 1]])]
    ELSE [ok |-> FALSE, val |-> Absent]

\* ------------------------------------------------------------------------
\* State
\* ------------------------------------------------------------------------

VARIABLES
    numpyStrict,  \* the installed NumPy raises on bool() of an empty array
    cfg,          \* the RecipeConversionConfig the caller uses
    cur,          \* the table the caller holds and passes to the next call
    curFrom,      \* what produced cur: "input" or the operation's name
    op,           \* the last operation called ("none" before the first)
    arg,          \* the value of the table passed to the last call
    argFrom,      \* what had produced that table
    df,           \* the caller's table object after the last call
    ret,          \* what the last call gave back: [err, df]
    calls,        \* number of calls made
    inp,          \* what a helper is called with besides the table, if anything
    answer        \* what the last helper call gave back: [err, val]

vars == <<numpyStrict, cfg, cur, curFrom, op, arg, argFrom, df, ret, calls, inp, answer>>

\* ------------------------------------------------------------------------
\* Internal helpers
\* ------------------------------------------------------------------------

\* The outcome of `if pd.isna(x):`.  For a list pd.isna answers an array with
\* one flag per element, and the truth value of an array is its only flag
\* when it has one, an error when it has several, and for an empty array
\* either False or an error, depending on the NumPy installed.
IsNaTruth(x) ==
    CASE x.k = "absent" -> "true"
      [] x.k = "list" ->
            IF Len(x.l) = 0 THEN (IF numpyStrict THEN "raise" ELSE "false")
            ELSE IF Len(x.l) = 1 THEN (IF x.l[1] = "None" THEN "true" ELSE "false")
            ELSE "raise"
      [] OTHER -> "false"

\* _safe_literal_eval(x): a list or an absent value is returned as it is (the
\* isinstance test comes first, so pd.isna never sees a list here); a string
\* is parsed, and returned unparsed when parsing raises.
_safe_literal_eval(x) ==
    IF x.k = "list" \/ x.k = "absent" THEN x
    ELSE IF x.k = "str"
         THEN (IF literal_eval(x.s).ok THEN literal_eval(x.s).val ELSE x)
         ELSE x

\* _ensure_list_or_none(x): raised is TRUE when the call ends in ValueError
\* ("The truth value of an array ... is ambiguous"), val is what it returns.
_ensure_list_or_none(x) ==
    IF IsNaTruth(x) = "raise" THEN [raised |-> TRUE, val |-> Absent]
    ELSE IF IsNaTruth(x) = "true" THEN [raised |-> FALSE, val |-> Absent]
    ELSE IF x.k = "list" THEN [raised |-> FALSE, val |-> x]
    ELSE [raised |-> FALSE,
          val |-> IF _safe_literal_eval(x).k = "list"
                  THEN _safe_literal_eval(x) ELSE Absent]

\* n times None.
Nones(n) == [i \in 1..n |-> "None"]

\* _pad_or_none(lst, n): the n entries the splitter keeps of a coerced cell.
_pad_or_none(lst, n) ==
    IF lst.k # "list" THEN Nones(n)
    ELSE IF Len(lst.l) = n THEN lst.l
    ELSE IF Len(lst.l) < n THEN lst.l \o Nones(n - Len(lst.l))
    ELSE SubSeq(lst.l, 1, n)

\* Series.apply(_ensure_list_or_none): the first raising cell aborts it.
ApplyEnsure(cells) ==
    [raised |-> \E k \in DOMAIN cells : _ensure_list_or_none(cells[k]).raised,
     cells  |-> [k \in DOMAIN cells |-> _ensure_list_or_none(cells[k]).val]]

\* ------------------------------------------------------------------------
\* Tables (pandas.DataFrame) and the objects that hold them
\* ------------------------------------------------------------------------

ColSet(t) == {t.cols[i] : i \in 1..Len(t.cols)}

\* `c in df.columns`
HasCol(t, c) == c \in ColSet(t)

\* df[c] = cells: an existing column is overwritten where it stands, a new
\* one is appended on the right.
PutColumn(t, c, cells, ty) ==
    IF HasCol(t, c)
    THEN [t EXCEPT !.data[c] = cells, !.dtype[c] = ty]
    ELSE [cols  |-> Append(t.cols, c),
          n     |-> t.n,
          data  |-> [x \in ColSet(t) \cup {c} |-> IF x = c THEN cells ELSE t.data[x]],
          dtype |-> [x \in ColSet(t) \cup {c} |-> IF x = c THEN ty ELSE t.dtype[x]]]

\* df.drop(columns=[c])
DropColumn(t, c) ==
    [cols  |-> SelectSeq(t.cols, LAMBDA x : x # c),
     n     |-> t.n,
     data  |-> [x \in ColSet(t) \ {c} |-> t.data[x]],
     dtype |-> [x \in ColSet(t) \ {c} |-> t.dtype[x]]]

NoError == [kind |-> "none", names |-> <<>>]

\* ValueError out of the truth value of pd.isna(list).
AmbiguousTruth == [kind |-> "AmbiguousTruth", names |-> <<>>]

\* ValueError raised by the splitter, carrying the colliding names.
NameCollision(dupes) == [kind |-> "NameCollision", names |-> dupes]

\* A frame follows one table variable of the code through a call: df is the
\* table value the variable holds, mine is FALSE while the variable still
\* names the caller's own object (so that an assignment into it is seen by
\* the caller), caller is the content of the caller's object, err the
\* exception raised so far.
Call(t) == [caller |-> t, mine |-> FALSE, df |-> t, err |-> NoError]

\* Nothing besides the table is passed, and no helper has answered.
NoInput == [k |-> "none"]

NoOutput == [err |-> NoError, val |-> [k |-> "none"]]

\* Mutant of _copy: the table is handed on without being copied.
CopyByReference(st) == st

\* _copy(df): df.copy(), a new object with the same content.
_copy(st) == [st EXCEPT !.mine = TRUE]

\* df[c] = cells, on the object the frame's variable names.
SetCol(st, c, cells, ty) ==
    [st EXCEPT !.df = PutColumn(st.df, c, cells, ty),
               !.caller = IF st.mine THEN @ ELSE PutColumn(st.df, c, cells, ty)]

\* A new table object bound to the frame's variable (pd.concat, df.drop).
Rebind(st, t) == [st EXCEPT !.df = t, !.mine = TRUE]

Raise(st, e) == [st EXCEPT !.err = e]

Raised(st) == st.err.kind # "none"

\* ------------------------------------------------------------------------
\* Unit conversions
\* ------------------------------------------------------------------------

\* The loop of convert_list_like_columns from its i-th name on.
RECURSIVE ListLikeLoop(_, _, _)
ListLikeLoop(st, list_like_cols, i) ==
    IF i > Len(list_like_cols) THEN st
    ELSE IF ~HasCol(st.df, list_like_cols[i])
         THEN ListLikeLoop(st, list_like_cols, i + 1)
         ELSE IF ApplyEnsure(st.df.data[list_like_cols[i]]).raised
              THEN Raise(st, AmbiguousTruth)
              ELSE ListLikeLoop(
                       SetCol(st, list_like_cols[i],
                              ApplyEnsure(st.df.data[list_like_cols[i]]).cells,
                              "object"),
                       list_like_cols, i + 1)

convert_list_like_columns(st, list_like_cols) ==
    ListLikeLoop(_copy(st), list_like_cols, 1)

\* The place of name c in the sequence names.
IndexOf(names, c) == CHOOSE j \in 1..Len(names) : names[j] = c

\* Mutant of PositionCells: the output rows are filled from the last padded
\* row backwards, as when the new frame is not aligned on the input's index.
PositionCellsReversed(padded, j) ==
    [k \in DOMAIN padded |-> ElemCell(padded[Len(padded) + 1 - k][j])]

\* Entry j of every padded row, as the cells of one output column.
PositionCells(padded, j) == [k \in DOMAIN padded |-> ElemCell(padded[k][j])]

\* pd.DataFrame(padded.to_list(), columns=list(output_cols), index=df.index)
NutriFrame(padded, output_cols, n) ==
    [cols  |-> output_cols,
     n     |-> n,
     data  |-> [c \in {output_cols[j] : j \in 1..Len(output_cols)} |->
                   PositionCells(padded, IndexOf(output_cols, c))],
     dtype |-> [c \in {output_cols[j] : j \in 1..Len(output_cols)} |-> "inferred"]]

\* Mutant of Concat: the new columns are put on the left.
ConcatNewFirst(a, b) ==
    [cols  |-> b.cols \o a.cols,
     n     |-> a.n,
     data  |-> [x \in ColSet(a) \cup ColSet(b) |->
                   IF x \in ColSet(b) THEN b.data[x] ELSE a.data[x]],
     dtype |-> [x \in ColSet(a) \cup ColSet(b) |->
                   IF x \in ColSet(b) THEN b.dtype[x] ELSE a.dtype[x]]]

\* pd.concat([a, b], axis=1) of two tables over the same index with no
\* common column name: the columns of a, then those of b.
Concat(a, b) ==
    [cols  |-> a.cols \o b.cols,
     n     |-> a.n,
     data  |-> [x \in ColSet(a) \cup ColSet(b) |->
                   IF x \in ColSet(b) THEN b.data[x] ELSE a.data[x]],
     dtype |-> [x \in ColSet(a) \cup ColSet(b) |->
                   IF x \in ColSet(b) THEN b.dtype[x] ELSE a.dtype[x]]]

\* dupes = [c for c in output_cols if c in df.columns]
Dupes(t, output_cols) == SelectSeq(output_cols, LAMBDA c : HasCol(t, c))

\* lists.apply(lambda x: _pad_or_none(x, len(output_cols)))
Padded(lists, output_cols) ==
    [k \in DOMAIN lists |-> _pad_or_none(lists[k], Len(output_cols))]

\* split_nutrition_columns once the source column is known to be present:
\* coercion (which may raise) comes before the collision test.
SplitPresent(st, nutrition_col, output_cols, drop_original) ==
    IF ApplyEnsure(st.df.data[nutrition_col]).raised
    THEN Raise(st, AmbiguousTruth)
    ELSE IF Dupes(st.df, output_cols) # <<>>
    THEN Raise(st, NameCollision(Dupes(st.df, output_cols)))
    ELSE LET out == Concat(st.df,
                           NutriFrame(Padded(ApplyEnsure(st.df.data[nutrition_col]).cells,
                                             output_cols),
                                      output_cols, st.df.n))
         IN  IF drop_original /\ HasCol(out, nutrition_col)
             THEN Rebind(st, DropColumn(out, nutrition_col))
             ELSE Rebind(st, out)

\* Mutant of split_nutrition_columns: the collision test comes before the
\* test for the source column.
SplitCollisionFirst(st, nutrition_col, output_cols, drop_original) ==
    IF Dupes(_copy(st).df, output_cols) # <<>>
    THEN Raise(_copy(st), NameCollision(Dupes(_copy(st).df, output_cols)))
    ELSE IF ~HasCol(_copy(st).df, nutrition_col)
    THEN _copy(st)
    ELSE SplitPresent(_copy(st), nutrition_col, output_cols, drop_original)

split_nutrition_columns(st, nutrition_col, output_cols, drop_original) ==
    IF ~HasCol(_copy(st).df, nutrition_col)
    THEN _copy(st)
    ELSE SplitPresent(_copy(st), nutrition_col, output_cols, drop_original)

\* ------------------------------------------------------------------------
\* Dates
\* ------------------------------------------------------------------------

\* The number a date token stands for.
TokInt(t) ==
    CASE t = "2019" -> 2019 [] t = "2020" -> 2020
      [] t = "01" -> 1 [] t = "02" -> 2
      [] t = "15" -> 15 [] t = "29" -> 29 [] t = "30" -> 30
      [] OTHER -> 0

IsLeap(y) == (y % 4 = 0 /\ y % 100 # 0) \/ y % 400 = 0

DaysInMonth(y, m) ==
    IF m = 2 THEN (IF IsLeap(y) THEN 29 ELSE 28)
    ELSE IF m \in {4, 6, 9, 11} THEN 30 ELSE 31

\* The string reads YYYY-MM-DD.
IsDateForm(s) ==
    /\ Len(s) = 5 /\ s[2] = "-" /\ s[4] = "-"
    /\ TokInt(s[1]) > 0 /\ TokInt(s[3]) > 0 /\ TokInt(s[5]) > 0

\* Mutant of to_datetime: a string of the date form is taken as a date
\* without asking the calendar.
ToDatetimeUnchecked(x) ==
    CASE x.k = "ts" -> x
      [] x.k = "str" ->
            IF IsDateForm(x.s)
            THEN Ts(TokInt(x.s[1]), TokInt(x.s[3]), TokInt(x.s[5]))
            ELSE Absent
      [] OTHER -> Absent

\* pd.to_datetime(..., errors="coerce") on one cell of the sampled kinds (a
\* string, a timestamp or an absent value): a date that does not exist, or a
\* string that is no date, becomes NaT.
to_datetime(x) ==
    CASE x.k = "ts" -> x
      [] x.k = "str" ->
            IF /\ IsDateForm(x.s)
               /\ TokInt(x.s[3]) \in 1..12
               /\ TokInt(x.s[5]) \in 1..DaysInMonth(TokInt(x.s[1]), TokInt(x.s[3]))
            THEN Ts(TokInt(x.s[1]), TokInt(x.s[3]), TokInt(x.s[5]))
            ELSE Absent
      [] OTHER -> Absent

\* Day of the week of a calendar date, Monday = 0.
MonthShift == <<0, 3, 2, 5, 0, 3, 5, 1, 4, 6, 2, 4>>

DayOfWeek(y, m, d) ==
    LET yy == IF m < 3 THEN y - 1 ELSE y
    IN  ((yy + (yy \div 4) - (yy \div 100) + (yy \div 400) + MonthShift[m] + d) + 6) % 7

\* Series.dt.<part> on one cell: NaT gives an absent value.
DtPart(x, part) ==
    IF x.k # "ts" THEN Absent
    ELSE CASE part = "year"  -> IntVal(x.y)
           [] part = "month" -> IntVal(x.m)
           [] part = "day"   -> IntVal(x.d)
           [] OTHER          -> IntVal(DayOfWeek(x.y, x.m, x.d))

\* Mutant of AddPart: the part column is written whether requested or not.
AddPartAlways(st, submitted_col, parts, part) ==
    SetCol(st, part,
           [k \in DOMAIN st.df.data[submitted_col] |->
               DtPart(st.df.data[submitted_col][k], part)],
           "numeric")

\* `if "<part>" in parts: df["<part>"] = df[submitted_col].dt.<part>`
AddPart(st, submitted_col, parts, part) ==
    IF \E i \in 1..Len(parts) : parts[i] = part
    THEN SetCol(st, part,
                [k \in DOMAIN st.df.data[submitted_col] |->
                    DtPart(st.df.data[submitted_col][k], part)],
                "numeric")
    ELSE st

\* df[submitted_col] = pd.to_datetime(df[submitted_col], errors="coerce")
ParseDates(st, submitted_col) ==
    SetCol(st, submitted_col,
           [k \in DOMAIN st.df.data[submitted_col] |->
               to_datetime(st.df.data[submitted_col][k])],
           "datetime64")

convert_temporal_columns(st, submitted_col, add_parts, parts) ==
    IF ~HasCol(_copy(st).df, submitted_col)
    THEN _copy(st)
    ELSE IF ~add_parts
    THEN ParseDates(_copy(st), submitted_col)
    ELSE AddPart(AddPart(AddPart(AddPart(ParseDates(_copy(st), submitted_col),
                                         submitted_col, parts, "year"),
                                 submitted_col, parts, "month"),
                         submitted_col, parts, "day"),
                 submitted_col, parts, "dayofweek")

\* Mutant of convert_contributor_to_category: the column holds the category
\* codes (.cat.codes) in place of the values.
ContributorAsCodes(st, contributor_col) ==
    IF HasCol(_copy(st).df, contributor_col)
    THEN SetCol(_copy(st), contributor_col,
                [k \in DOMAIN _copy(st).df.data[contributor_col] |-> IntVal(k - 1)],
                "category")
    ELSE _copy(st)

\* astype("category") keeps every value and changes the declared type.
convert_contributor_to_category(st, contributor_col) ==
    IF HasCol(_copy(st).df, contributor_col)
    THEN SetCol(_copy(st), contributor_col,
                _copy(st).df.data[contributor_col], "category")
    ELSE _copy(st)

\* ------------------------------------------------------------------------
\* Conversion pipeline
\* ------------------------------------------------------------------------

\* RecipeConversionConfig()
DefaultConfig ==
    [list_like_cols          |-> DEFAULT_LIST_LIKE_COLS,
     nutrition_col           |-> "nutrition",
     temporal_col            |-> "submitted",
     add_temporal_parts      |-> TRUE,
     temporal_parts          |-> <<"year", "month">>,
     contributor_col         |-> "contributor_id",
     drop_original_nutrition |-> FALSE]

\* Step 2 of the pipeline.
PipelineSplit(st, c) ==
    IF HasCol(st.df, c.nutrition_col)
    THEN split_nutrition_columns(st, c.nutrition_col, NUTRITION_COLS,
                                 c.drop_original_nutrition)
    ELSE st

\* Steps 3 and 4 of the pipeline.
PipelineTail(st, c) ==
    convert_contributor_to_category(
        convert_temporal_columns(st, c.temporal_col, c.add_temporal_parts,
                                 c.temporal_parts),
        c.contributor_col)

\* An exception raised by one step ends the call.
convert_recipes_for_univariate(st, c) ==
    LET s1 == convert_list_like_columns(_copy(st), c.list_like_cols)
    IN  IF Raised(s1) THEN s1
        ELSE IF Raised(PipelineSplit(s1, c)) THEN PipelineSplit(s1, c)
        ELSE PipelineTail(PipelineSplit(s1, c), c)

\* ------------------------------------------------------------------------
\* Sampled inputs
\* ------------------------------------------------------------------------

\* The vector of L numbers 1, 2, ..., L.
Vec(L) == [i \in 1..L |-> NumToks[i]]

\* The tokens of str(l): the elements between brackets, separated by commas.
Repr(l) ==
    <<"[">> \o [i \in 1..(2 * Len(l) - 1) |->
                   IF i % 2 = 1 THEN l[(i + 1) \div 2] ELSE ","] \o <<"]">>

\* Vector lengths sampled: empty, one entry, several, shorter than the 7
\* expected, exactly 7, longer.
LenSamples ==
    <<0, 1, 2, Len(NUTRITION_COLS) - 2, Len(NUTRITION_COLS), MaxVecLen>>

\* Cells of the nutrition column: absent, list literals still in string form,
\* native lists, and strings that are no list.
NutSamples ==
    <<Absent>>
    \o [i \in 1..Len(LenSamples) |-> Str(Repr(Vec(LenSamples[i])))]
    \o [i \in 1..Len(LenSamples) |-> Lst(Vec(LenSamples[i]))]
    \o << Str(<<"[", "None", "]">>),
          Lst(<<"None">>),
          Str(Repr(<<"1", "None", "3">>)),
          Str(<<"[", "1", ",", "2">>),
          Str(<<"x">>),
          Str(<<"1">>),
          Str(<<"[", "1", ",", "]">>),
          Str(<<"[", ",", "]">>),
          Num("5") >>

TagSamples ==
    << Str(Repr(<<"1", "2">>)), Absent, Lst(<<"1">>), Str(<<"x">>), Lst(<<"1", "2">>) >>

DateSamples ==
    << Str(<<"2020", "-", "01", "-", "15">>),
       Str(<<"2019", "-", "02", "-", "30">>),
       Absent,
       Str(<<"2020", "-", "02", "-", "29">>),
       Str(<<"x">>) >>

ContributorSamples == << Num("1"), Num("2"), Num("1"), Absent >>

\* The k-th entry of a sample list, going round.
Cyc(samples, r) == samples[((r - 1) % Len(samples)) + 1]

\* The cell of column c in sample row r.
SampleCell(c, r) ==
    CASE c = "nutrition"      -> Cyc(NutSamples, r)
      [] c = "tags"           -> Cyc(TagSamples, r)
      [] c = "submitted"      -> Cyc(DateSamples, r)
      [] c = "contributor_id" -> Cyc(ContributorSamples, r)
      [] c = "id"             -> Num(Cyc(NumToks, r))
      [] OTHER                -> Num(Cyc(<<"7", "9">>, r))

\* Column layouts of the input: the usual recipe columns, layouts that lack a
\* source column, and layouts that already hold a name the pipeline writes.
Shapes ==
    { <<"id", "nutrition", "tags", "submitted", "contributor_id">>,
      <<"id", "tags", "submitted">>,
      <<"nutrition", "calories", "id">>,
      <<"calories", "id">>,
      <<"year", "nutrition", "submitted">>,
      <<"submitted", "nutrition", "carbohydrates", "sodium">>,
      <<"nutrition">>,
      <<"id">> }

\* The table of n rows with the given columns, filled from sample row r on.
SampleTable(shape, r, n) ==
    [cols  |-> shape,
     n     |-> n,
     data  |-> [c \in {shape[i] : i \in 1..Len(shape)} |->
                   [k \in 1..n |-> SampleCell(c, r + k - 1)]],
     dtype |-> [c \in {shape[i] : i \in 1..Len(shape)} |-> "raw"]]

Configs ==
    { DefaultConfig,
      [DefaultConfig EXCEPT !.drop_original_nutrition = TRUE],
      [DefaultConfig EXCEPT !.list_like_cols = <<"tags">>,
                            !.temporal_parts = <<"dayofweek", "day", "week">>],
      [DefaultConfig EXCEPT !.list_like_cols = <<>>,
                            !.add_temporal_parts = FALSE,
                            !.drop_original_nutrition = TRUE] }

\* ------------------------------------------------------------------------
\* The caller
\* ------------------------------------------------------------------------

Init ==
    /\ numpyStrict \in BOOLEAN
    /\ cfg \in Configs
    /\ \E shape \in Shapes, r \in 1..Len(NutSamples), n \in 0..MaxRows :
           cur = SampleTable(shape, r, n)
    /\ curFrom = "input"
    /\ op = "none"
    /\ arg = cur
    /\ argFrom = "input"
    /\ df = cur
    /\ ret = [err |-> NoError, df |-> cur]
    /\ calls = 0
    /\ inp = NoInput
    /\ answer = NoOutput

\* The caller passes cur to operation name, which ends in frame r: the
\* caller keeps what was returned, or the table it had when the call raised.
Record(name, r) ==
    /\ op' = name
    /\ arg' = cur
    /\ argFrom' = curFrom
    /\ df' = r.caller
    /\ ret' = [err |-> r.err, df |-> r.df]
    /\ cur' = IF Raised(r) THEN cur ELSE r.df
    /\ curFrom' = IF Raised(r) THEN curFrom ELSE name
    /\ calls' = calls + 1
    /\ UNCHANGED <<numpyStrict, cfg, inp, answer>>

\* An exception ends the caller's run.
CanCall == calls < MaxCalls /\ ret.err = NoError

CallConvertListLike ==
    /\ CanCall
    /\ Record("convert_list_like_columns",
              convert_list_like_columns(Call(cur), cfg.list_like_cols))

CallSplitNutrition ==
    /\ CanCall
    /\ Record("split_nutrition_columns",
              split_nutrition_columns(Call(cur), cfg.nutrition_col, NUTRITION_COLS,
                                      cfg.drop_original_nutrition))

CallConvertTemporal ==
    /\ CanCall
    /\ Record("convert_temporal_columns",
              convert_temporal_columns(Call(cur), cfg.temporal_col,
                                       cfg.add_temporal_parts, cfg.temporal_parts))

CallConvertContributor ==
    /\ CanCall
    /\ Record("convert_contributor_to_category",
              convert_contributor_to_category(Call(cur), cfg.contributor_col))

CallPipeline ==
    /\ CanCall
    /\ Record("convert_recipes_for_univariate",
              convert_recipes_for_univariate(Call(cur), cfg))

Next ==
    \/ CallConvertListLike
    \/ CallSplitNutrition
    \/ CallConvertTemporal
    \/ CallConvertContributor
    \/ CallPipeline

Spec == Init /\ [][Next]_vars

\* ------------------------------------------------------------------------
\* Properties
\* ------------------------------------------------------------------------

\* The last call returned a table.
Returned == op # "none" /\ ret.err = NoError

\* C1: running convert_recipes_for_univariate on its own output completes and
\* returns a table equal to that output.
C1_PipelineIdempotent ==
    (op = "convert_recipes_for_univariate" /\ argFrom = "convert_recipes_for_univariate")
        => (ret.err = NoError /\ ret.df = arg)

\* C2: the only exception a stage or the pipeline raises is the name
\* collision of the nutrition splitter.
C2_OnlyCollisionRaises ==
    (op # "none" /\ ret.err # NoError) => ret.err.kind = "NameCollision"

\* The cell the list parser's contract gives for cell x: a list stays, an
\* absent marker is absent, a string that parses as a list literal becomes
\* that list, anything else is absent.
ContractCell(x) ==
    IF x.k = "list" THEN x
    ELSE IF x.k = "str" /\ literal_eval(x.s).ok /\ literal_eval(x.s).val.k = "list"
         THEN literal_eval(x.s).val
         ELSE Absent

\* The names of list_like_cols that are columns of t.
NamedPresent(t, list_like_cols) ==
    {list_like_cols[i] : i \in 1..Len(list_like_cols)} \cap ColSet(t)

\* C3: convert_list_like_columns replaces every cell of every named column
\* that is present by the cell its contract gives, and leaves no raw string.
C3_ListParserContract ==
    op = "convert_list_like_columns"
        => /\ ret.err = NoError
           /\ \A c \in NamedPresent(arg, cfg.list_like_cols) : \A k \in 1..arg.n :
                  /\ ret.df.data[c][k] = ContractCell(arg.data[c][k])
                  /\ ret.df.data[c][k].k # "str"

\* C4: convert_list_like_columns applied to its own output completes and
\* returns an equal table.
C4_ListParserIdempotent ==
    (op = "convert_list_like_columns" /\ argFrom = "convert_list_like_columns")
        => (ret.err = NoError /\ ret.df = arg)

\* The nutrition vector of a source cell: the list itself, the list a string
\* parses to, or absent when the cell holds no sequence.
VectorOf(x) == ContractCell(x)

\* What position i of a source cell's vector gives: its entry when the vector
\* has more than i entries (counted from 0), absent otherwise.
EntryOrAbsent(x, i) ==
    IF VectorOf(x).k = "list" /\ Len(VectorOf(x).l) > i
    THEN ElemCell(VectorOf(x).l[i + 1])
    ELSE Absent

\* C5: with the source column present and no colliding name, the splitter
\* adds exactly the 7 output columns, and output column i of every row holds
\* entry i of the row's vector, or absent when the vector has no such entry.
C5_SplitPadsAndTruncates ==
    (/\ op = "split_nutrition_columns"
     /\ HasCol(arg, cfg.nutrition_col)
     /\ Dupes(arg, NUTRITION_COLS) = <<>>)
        => /\ ret.err = NoError
           /\ ColSet(ret.df) \ ColSet(arg) =
                  {NUTRITION_COLS[j] : j \in 1..Len(NUTRITION_COLS)}
           /\ Len(ret.df.cols) =
                  Len(arg.cols) + Len(NUTRITION_COLS)
                      - (IF cfg.drop_original_nutrition THEN 1 ELSE 0)
           /\ \A k \in 1..arg.n : \A i \in 0..(Len(NUTRITION_COLS) - 1) :
                  ret.df.data[NUTRITION_COLS[i + 1]][k]
                      = EntryOrAbsent(arg.data[cfg.nutrition_col][k], i)

\* C6: on a table that holds the source column and at least one of the
\* output names, the splitter fails with the name-collision error carrying
\* exactly the colliding names.  (Tables without the source column are the
\* subject of C7.)
C6_CollisionRaises ==
    (/\ op = "split_nutrition_columns"
     /\ HasCol(arg, cfg.nutrition_col)
     /\ Dupes(arg, NUTRITION_COLS) # <<>>)
        => ret.err = NameCollision(Dupes(arg, NUTRITION_COLS))

\* The table was returned as it was passed.
Unchanged == ret.err = NoError /\ ret.df = arg

\* C7: a stage called on a table that lacks its source column returns the
\* table with the same columns and values and raises nothing, whatever other
\* columns the table has; the list parser skips the names that are absent
\* and adds no column for them.
C7_MissingSourceUnchanged ==
    /\ (op = "split_nutrition_columns" /\ ~HasCol(arg, cfg.nutrition_col))
           => Unchanged
    /\ (op = "convert_temporal_columns" /\ ~HasCol(arg, cfg.temporal_col))
           => Unchanged
    /\ (op = "convert_contributor_to_category" /\ ~HasCol(arg, cfg.contributor_col))
           => Unchanged
    /\ (op = "convert_list_like_columns" /\ NamedPresent(arg, cfg.list_like_cols) = {})
           => Unchanged
    /\ (op = "convert_list_like_columns" /\ ret.err = NoError)
           => ret.df.cols = arg.cols

\* C7 witness: the splitter was called on a table of some rows that lacks the
\* source column but holds one of the output names.
C7_Witness ==
    /\ op = "split_nutrition_columns"
    /\ ~HasCol(arg, cfg.nutrition_col)
    /\ HasCol(arg, "calories")
    /\ arg.n > 0
    /\ Unchanged

\* C8: after any call, returned or raised, the caller's table object holds
\* the columns, types and cells it held before the call.
C8_InputNotMutated == op # "none" => df = arg

\* C8 witness: the pipeline returned a table in which a column of the input
\* holds other cells, and the caller's table is as it was.
C8_Witness ==
    /\ op = "convert_recipes_for_univariate"
    /\ ret.err = NoError
    /\ arg.n > 0
    /\ \E c \in ColSet(arg) \cap ColSet(ret.df) : ret.df.data[c] # arg.data[c]
    /\ df = arg

\* The one-row table made of row k of t.
RowTable(t, k) ==
    [cols  |-> t.cols,
     n     |-> 1,
     data  |-> [c \in ColSet(t) |-> <<t.data[c][k]>>],
     dtype |-> t.dtype]

\* The frame in which operation name ends on table t.
ApplyOp(name, t) ==
    CASE name = "convert_list_like_columns" ->
            convert_list_like_columns(Call(t), cfg.list_like_cols)
      [] name = "split_nutrition_columns" ->
            split_nutrition_columns(Call(t), cfg.nutrition_col, NUTRITION_COLS,
                                    cfg.drop_original_nutrition)
      [] name = "convert_temporal_columns" ->
            convert_temporal_columns(Call(t), cfg.temporal_col,
                                     cfg.add_temporal_parts, cfg.temporal_parts)
      [] name = "convert_contributor_to_category" ->
            convert_contributor_to_category(Call(t), cfg.contributor_col)
      [] OTHER -> convert_recipes_for_univariate(Call(t), cfg)

\* C9: a returned table has as many rows as the input, in every column, and
\* its row k is what the operation makes of row k of the input alone.
C9_RowsPreserved ==
    Returned
        => /\ ret.df.n = arg.n
           /\ \A c \in ColSet(ret.df) : DOMAIN ret.df.data[c] = 1..arg.n
           /\ \A k \in 1..arg.n :
                  /\ ~Raised(ApplyOp(op, RowTable(arg, k)))
                  /\ \A c \in ColSet(ret.df) :
                         ret.df.data[c][k] = ApplyOp(op, RowTable(arg, k)).df.data[c][1]

\* C9 witness: the splitter returned a table of several rows whose first two
\* rows got different calories.
C9_Witness ==
    /\ op = "split_nutrition_columns"
    /\ ret.err = NoError
    /\ arg.n >= 2
    /\ ret.df.data["calories"][1] # ret.df.data["calories"][2]

\* The input's columns in their order, without the nutrition column when the
\* drop flag is set.
BaseCols(t) ==
    IF cfg.drop_original_nutrition
    THEN SelectSeq(t.cols, LAMBDA c : c # cfg.nutrition_col)
    ELSE t.cols

PartNames == <<"year", "month", "day", "dayofweek">>

\* C10 as stated: the pipeline's output columns are the input's columns, then
\* the 7 nutrition columns, then 0 to 4 derived temporal columns.
C10_NutritionThenTemporal ==
    (op = "convert_recipes_for_univariate" /\ ret.err = NoError)
        => LET base == BaseCols(arg)
               cols == ret.df.cols
               nb   == Len(base)
               nn   == Len(NUTRITION_COLS)
           IN  /\ Len(cols) >= nb + nn
               /\ Len(cols) <= nb + nn + Len(PartNames)
               /\ SubSeq(cols, 1, nb) = base
               /\ SubSeq(cols, nb + 1, nb + nn) = NUTRITION_COLS
               /\ \A i \in (nb + nn + 1)..Len(cols) :
                      \E j \in 1..Len(PartNames) : cols[i] = PartNames[j]

\* The calendar parts the temporal converter appends to table t: the
\* requested ones it knows, in its own order, that are no column of t yet.
NewParts(t) ==
    IF HasCol(t, cfg.temporal_col) /\ cfg.add_temporal_parts
    THEN SelectSeq(PartNames,
                   LAMBDA p : /\ \E i \in 1..Len(cfg.temporal_parts) :
                                     cfg.temporal_parts[i] = p
                              /\ ~HasCol(t, p))
    ELSE <<>>

\* C10 (amended): when the pipeline returns, its output columns are the
\* input's columns in their order (without the nutrition column iff the drop
\* flag is set), then the 7 nutrition columns only if the input has the
\* nutrition column, then the derived temporal columns that are new, in the
\* order year, month, day, dayofweek; a part whose name is already an input
\* column keeps that column's place.
C10_ColumnOrder ==
    (op = "convert_recipes_for_univariate" /\ ret.err = NoError)
        => ret.df.cols =
               BaseCols(arg)
               \o (IF HasCol(arg, cfg.nutrition_col) THEN NUTRITION_COLS ELSE <<>>)
               \o NewParts(arg)

\* C10 witness: the pipeline returned, for an input of some rows that holds
\* the nutrition column, a table with nutrition columns and a new part column.
C10_Witness ==
    /\ op = "convert_recipes_for_univariate"
    /\ ret.err = NoError
    /\ arg.n > 0
    /\ HasCol(arg, cfg.nutrition_col)
    /\ HasCol(ret.df, "calories")
    /\ NewParts(arg) # <<>>
    /\ HasCol(ret.df, NewParts(arg)[1])

\* The requested part names the temporal converter knows.
KnownRequested ==
    {PartNames[j] : j \in 1..Len(PartNames)}
        \cap {cfg.temporal_parts[i] : i \in 1..Len(cfg.temporal_parts)}

\* C11: with the source column present, convert_temporal_columns raises
\* nothing; with the add-parts flag it gives the table a column for exactly
\* the requested names among year, month, day, dayofweek (an unknown name
\* gives none), without the flag it gives none; and in each such column a row
\* whose timestamp is absent holds an absent value, any other row an integer.
C11_TemporalParts ==
    (op = "convert_temporal_columns" /\ HasCol(arg, cfg.temporal_col))
        => /\ ret.err = NoError
           /\ ColSet(ret.df) =
                  ColSet(arg) \cup (IF cfg.add_temporal_parts THEN KnownRequested ELSE {})
           /\ cfg.add_temporal_parts =>
                  \A p \in KnownRequested : \A k \in 1..arg.n :
                      IF ret.df.data[cfg.temporal_col][k] = Absent
                      THEN ret.df.data[p][k] = Absent
                      ELSE ret.df.data[p][k].k = "int"

\* C11 witness: parts were requested with an unknown name among them, on a
\* table with a row whose timestamp is absent; a known part was added.
C11_Witness ==
    /\ op = "convert_temporal_columns"
    /\ HasCol(arg, cfg.temporal_col)
    /\ cfg.add_temporal_parts
    /\ \E i \in 1..Len(cfg.temporal_parts) : cfg.temporal_parts[i] = "week"
    /\ ret.err = NoError
    /\ HasCol(ret.df, "dayofweek") /\ ~HasCol(arg, "dayofweek")
    /\ \E k \in 1..arg.n : ret.df.data[cfg.temporal_col][k] = Absent
    /\ \E k \in 1..arg.n : ret.df.data["dayofweek"][k] = IntVal(2)

\* Days of the twelve months of a common year.
MonthDays == <<31, 28, 31, 30, 31, 30, 31, 31, 30, 31, 30, 31>>

\* y-m-d is a date of the calendar.
IsCalendarDate(y, m, d) ==
    /\ m >= 1 /\ m <= 12 /\ d >= 1
    /\ \/ d <= MonthDays[m]
       \/ m = 2 /\ d = 29 /\ (y % 400 = 0 \/ (y % 4 = 0 /\ y % 100 # 0))

\* What the temporal converter is to make of a source cell: the timestamp of
\* the date a string YYYY-MM-DD names when that date exists, a timestamp
\* itself, and absent for anything else.
ExpectedTimestamp(x) ==
    IF x.k = "ts" THEN x
    ELSE IF x.k = "str" /\ IsDateForm(x.s)
            /\ IsCalendarDate(TokInt(x.s[1]), TokInt(x.s[3]), TokInt(x.s[5]))
         THEN Ts(TokInt(x.s[1]), TokInt(x.s[3]), TokInt(x.s[5]))
         ELSE Absent

\* C12: convert_temporal_columns never raises on a malformed date: every
\* source cell becomes the timestamp of its date when that is a date of the
\* calendar and absent when it is not, whatever the other rows hold.
C12_DatesCoerced ==
    (op = "convert_temporal_columns" /\ HasCol(arg, cfg.temporal_col))
        => /\ ret.err = NoError
           /\ \A k \in 1..arg.n :
                  ret.df.data[cfg.temporal_col][k]
                      = ExpectedTimestamp(arg.data[cfg.temporal_col][k])

\* C12 witness: of two rows, the one naming 30 February became absent and
\* the other one a timestamp.
C12_Witness ==
    /\ op = "convert_temporal_columns"
    /\ ret.err = NoError
    /\ arg.n >= 2
    /\ HasCol(arg, cfg.temporal_col)
    /\ \E k \in 1..arg.n :
           /\ arg.data[cfg.temporal_col][k] = Str(<<"2019", "-", "02", "-", "30">>)
           /\ ret.df.data[cfg.temporal_col][k] = Absent
    /\ \E k \in 1..arg.n : ret.df.data[cfg.temporal_col][k].k = "ts"

\* The values a column holds.
Distinct(cells) == {cells[k] : k \in DOMAIN cells}

\* C13: convert_contributor_to_category raises nothing and changes no value:
\* every column holds in every row the value it held, so the distinct values
\* present are the same, every other column keeps its type, the column itself
\* (if present) is declared categorical, and without the column the table is
\* returned as it was.
C13_CategoryKeepsValues ==
    op = "convert_contributor_to_category"
        => /\ ret.err = NoError
           /\ ret.df.cols = arg.cols
           /\ \A c \in ColSet(arg) :
                  /\ ret.df.data[c] = arg.data[c]
                  /\ Distinct(ret.df.data[c]) = Distinct(arg.data[c])
                  /\ c # cfg.contributor_col => ret.df.dtype[c] = arg.dtype[c]
           /\ HasCol(arg, cfg.contributor_col) =>
                  ret.df.dtype[cfg.contributor_col] = "category"
           /\ ~HasCol(arg, cfg.contributor_col) => ret.df = arg

\* C13 witness: the column was cast on a table of several rows holding
\* different values.
C13_Witness ==
    /\ op = "convert_contributor_to_category"
    /\ HasCol(arg, cfg.contributor_col)
    /\ arg.n >= 2
    /\ arg.data[cfg.contributor_col][1] # arg.data[cfg.contributor_col][2]
    /\ arg.dtype[cfg.contributor_col] # "category"
    /\ ret.df.dtype[cfg.contributor_col] = "category"

\* The coercion stage ran on a table whose nutrition column it is configured
\* to coerce and holds only strings and absent cells, and which the splitter
\* takes as it is.
CoercedStringNutrition ==
    /\ op = "convert_list_like_columns"
    /\ ret.err = NoError
    /\ HasCol(arg, cfg.nutrition_col)
    /\ \E i \in 1..Len(cfg.list_like_cols) : cfg.list_like_cols[i] = cfg.nutrition_col
    /\ \A k \in 1..arg.n : arg.data[cfg.nutrition_col][k].k \in {"str", "absent"}
    /\ ~Raised(ApplyOp("split_nutrition_columns", arg))

\* C16: splitting the output of the coercion stage completes and gives the 7
\* nutrition columns that splitting the stage's input gives, for every table
\* whose nutrition cells are strings or absent.
C16_SplitAfterCoercion ==
    [][(CoercedStringNutrition /\ op' = "split_nutrition_columns")
          => /\ ret'.err = NoError
             /\ \A j \in 1..Len(NUTRITION_COLS) :
                    ret'.df.data[NUTRITION_COLS[j]]
                        = ApplyOp("split_nutrition_columns", arg).df.data[NUTRITION_COLS[j]]]_vars

\* The columns the configuration gives a role to.
RoleCols ==
    {cfg.list_like_cols[i] : i \in 1..Len(cfg.list_like_cols)}
        \cup {cfg.nutrition_col, cfg.temporal_col, cfg.contributor_col}

\* C18: a table the pipeline returns holds every input column that has no
\* configured role with the values it had in every row, and these columns in
\* the order they had.
C18_OtherColumnsUntouched ==
    (op = "convert_recipes_for_univariate" /\ ret.err = NoError)
        => /\ \A c \in ColSet(arg) \ RoleCols :
                  HasCol(ret.df, c) /\ ret.df.data[c] = arg.data[c]
           /\ SelectSeq(ret.df.cols, LAMBDA c : c \in ColSet(arg) \ RoleCols)
                  = SelectSeq(arg.cols, LAMBDA c : c \notin RoleCols)

\* ------------------------------------------------------------------------
\* Loader checks, cell coercers and descriptions
\* ------------------------------------------------------------------------

\* The Python value True.
True == [k |-> "bool", b |-> TRUE]

\* ValueError("Le DataFrame est vide après chargement.")
EmptyFrame == [kind |-> "EmptyFrame", names |-> <<>>]

\* ValueError(f"Colonnes manquantes : {missing}. ... présentes : {list(df.columns)}")
MissingColumns(missing, present) ==
    [kind |-> "MissingColumns", names |-> missing, present |-> present]

\* df.empty: some axis of the table has length 0.
empty(t) == t.n = 0 \/ Len(t.cols) = 0

\* Mutant of validate_dataframe: the columns are looked at before the rows.
ValidateColumnsFirst(t, expected_columns) ==
    IF SelectSeq(expected_columns, LAMBDA c : ~HasCol(t, c)) # <<>>
    THEN [err |-> MissingColumns(SelectSeq(expected_columns, LAMBDA c : ~HasCol(t, c)),
                                 t.cols),
          val |-> NoOutput.val]
    ELSE IF empty(t) THEN [err |-> EmptyFrame, val |-> NoOutput.val]
    ELSE [err |-> NoError, val |-> True]

\* validate_dataframe(df, expected_columns)
validate_dataframe(t, expected_columns) ==
    IF empty(t) THEN [err |-> EmptyFrame, val |-> NoOutput.val]
    ELSE IF SelectSeq(expected_columns, LAMBDA c : ~HasCol(t, c)) # <<>>
    THEN [err |-> MissingColumns(SelectSeq(expected_columns, LAMBDA c : ~HasCol(t, c)),
                                 t.cols),
          val |-> NoOutput.val]
    ELSE [err |-> NoError, val |-> True]

\* Lists of expected columns a caller of the check passes.
ExpectedSamples ==
    { <<>>,
      <<"id">>,
      <<"nutrition", "submitted">>,
      <<"submitted", "id", "tags", "nutrition">>,
      <<"tags", "id", "tags">> }

\* Tables handed to the check: the sampled layouts and a table without
\* columns, of 0 to MaxRows rows.
LoadedTables ==
    {SampleTable(shape, 1, n) : shape \in Shapes \cup {<<>>}, n \in 0..MaxRows}

ExpectedInput(cols) == [k |-> "expected_columns", cols |-> cols]

\* A helper is called while the caller's run has not ended in an exception.
CanCallHelper == calls < MaxCalls /\ answer.err = NoError

\* The caller calls helper name, which answers r.
RecordHelper(name, r) ==
    /\ op' = name
    /\ answer' = r
    /\ calls' = calls + 1
    /\ UNCHANGED <<numpyStrict, cfg, cur, curFrom, arg, argFrom, df, ret, inp>>

CallValidateDataframe ==
    /\ CanCallHelper
    /\ inp.k = "expected_columns"
    /\ RecordHelper("validate_dataframe", validate_dataframe(cur, inp.cols))

\* data_loader._to_list_or_none(x), in the form of _ensure_list_or_none: None
\* and a list are answered before pd.isna is asked, pd.isna sits in a try, and
\* literal_eval's ValueError and SyntaxError give None.
_to_list_or_none(x) ==
    IF x.k = "absent" THEN [raised |-> FALSE, val |-> Absent]
    ELSE IF x.k = "list" THEN [raised |-> FALSE, val |-> x]
    ELSE IF x.k = "str"
         THEN [raised |-> FALSE,
               val |-> IF literal_eval(x.s).ok /\ literal_eval(x.s).val.k = "list"
                       THEN literal_eval(x.s).val ELSE Absent]
         ELSE [raised |-> FALSE, val |-> Absent]

\* What the caller of a coercer gets.
CoercerAnswer(r) ==
    IF r.raised THEN [err |-> AmbiguousTruth, val |-> NoOutput.val]
    ELSE [err |-> NoError, val |-> r.val]

\* Cells handed to the coercers.
CoercerCells ==
    {NutSamples[i] : i \in 1..Len(NutSamples)}
        \cup {TagSamples[i] : i \in 1..Len(TagSamples)}
        \cup {Lst(<<>>), Lst(<<"None">>), Num("1")}

CellInput(x) == [k |-> "cell", x |-> x]

CallToListOrNone ==
    /\ CanCallHelper
    /\ inp.k = "cell"
    /\ RecordHelper("_to_list_or_none", CoercerAnswer(_to_list_or_none(inp.x)))

CallEnsureListOrNone ==
    /\ CanCallHelper
    /\ inp.k = "cell"
    /\ RecordHelper("_ensure_list_or_none", CoercerAnswer(_ensure_list_or_none(inp.x)))

\* Whitespace of a string.
IsSpace(t) == t = " "

RECURSIVE lstrip(_)
lstrip(s) == IF s # <<>> /\ IsSpace(Head(s)) THEN lstrip(Tail(s)) ELSE s

RECURSIVE rstrip(_)
rstrip(s) ==
    IF s # <<>> /\ IsSpace(s[Len(s)]) THEN rstrip(SubSeq(s, 1, Len(s) - 1)) ELSE s

\* str.strip()
strip(s) == rstrip(lstrip(s))

\* str.replace(a, b) for one-token a and b.
replace(s, a, b) == [i \in 1..Len(s) |-> IF s[i] = a THEN b ELSE s[i]]

\* str.lower() and the upper-casing of a first letter, token by token, over
\* the tokens that hold capitals.
Lower(t) ==
    CASE t = "This is a" -> "this is a"
      [] t = "Low" -> "low"
      [] t = "Carb" -> "carb"
      [] t = "Tasty" -> "tasty"
      [] OTHER -> t

UpperFirst(t) ==
    CASE t = "this is a" -> "This is a"
      [] t = "low" -> "Low"
      [] t = "carb" -> "Carb"
      [] t = "tasty" -> "Tasty"
      [] OTHER -> t

\* str.capitalize(): first character upper, every other one lower.
capitalize(s) ==
    [i \in 1..Len(s) |-> IF i = 1 THEN UpperFirst(Lower(s[i])) ELSE Lower(s[i])]

\* " ".join(parts)
RECURSIVE JoinSpace(_)
JoinSpace(parts) ==
    IF parts = <<>> THEN <<>>
    ELSE IF Len(parts) = 1 THEN parts[1]
    ELSE parts[1] \o <<" ">> \o JoinSpace(Tail(parts))

\* pd.notna(x) of a scalar.
notna(x) == x.k # "absent"

\* float(x): ok is FALSE where it raises.
float(x) ==
    IF x.k = "int" THEN [ok |-> TRUE, v |-> x.i]
    ELSE IF x.k = "str" /\ Len(x.s) = 1 /\ TokInt(x.s[1]) > 0
         THEN [ok |-> TRUE, v |-> TokInt(x.s[1])]
         ELSE [ok |-> FALSE, v |-> 0]

\* category: the first tag with its hyphens turned into spaces, <<>> for None.
Category(tags) ==
    IF tags.k = "list" /\ Len(tags.l) > 0 /\ tags.l[1].k = "str"
    THEN strip(replace(tags.l[1].s, "-", " "))
    ELSE <<>>

\* Mutant of DurationPhrase: 30 minutes still count as quick.
DurationPhraseInclusive(t) ==
    IF t <= 30 THEN "that is quick to prepare"
    ELSE IF t < 90 THEN "of moderate duration"
    ELSE "that takes longer to cook"

\* The duration phrase of t minutes.
DurationPhrase(t) ==
    IF t < 30 THEN "that is quick to prepare"
    ELSE IF t < 90 THEN "of moderate duration"
    ELSE "that takes longer to cook"

\* The complexity phrase of s steps and i ingredients.
ComplexityPhrase(s, i) ==
    IF s <= 5 /\ i <= 5 THEN "and very simple to make"
    ELSE IF s > 10 \/ i > 10 THEN "and rather elaborate"
    ELSE "with average complexity"

\* parts, as built up to the join.
Parts(row) ==
    <<<<"This is a">>>>
        \o (IF Category(row.tags) # <<>> THEN <<Category(row.tags)>> ELSE <<>>)
        \o <<<<"recipe">>>>
        \o (IF notna(row.minutes) /\ float(row.minutes).ok
            THEN <<<<DurationPhrase(float(row.minutes).v)>>>> ELSE <<>>)
        \o (IF notna(row.n_steps) /\ notna(row.n_ingredients)
               /\ float(row.n_steps).ok /\ float(row.n_ingredients).ok
            THEN <<<<ComplexityPhrase(float(row.n_steps).v,
                                      float(row.n_ingredients).v)>>>>
            ELSE <<>>)

\* sentence = " ".join(parts).strip().capitalize()
Sentence(row) == capitalize(strip(JoinSpace(Parts(row))))

\* generate_auto_description(row); a key the row lacks reads as None.
generate_auto_description(row) ==
    IF row.description.k = "str" /\ strip(row.description.s) # <<>>
    THEN row.description
    ELSE IF Sentence(row) # <<>> /\ Sentence(row)[Len(Sentence(row))] = "."
         THEN Str(Sentence(row))
         ELSE Str(Sentence(row) \o <<".">>)

DescriptionSamples ==
    {Absent, Str(<<>>), Str(<<" ">>), Str(<<" ", "Tasty", " ">>), IntVal(5)}

MinutesSamples ==
    {Absent, IntVal(0), IntVal(29), IntVal(30), IntVal(89), IntVal(90), IntVal(120),
     Str(<<"x">>), Str(<<"15">>)}

CountSamples == {Absent, IntVal(3), IntVal(6), IntVal(11)}

DescriptionTagSamples ==
    {Absent,
     Lst(<<>>),
     Lst(<<Str(<<"Low", "-", "Carb">>), Str(<<"x">>)>>),
     Lst(<<Str(<<"-">>)>>),
     Lst(<<IntVal(3)>>),
     Str(<<"[", "1", "]">>)}

\* Rows handed to the description generator.
RowSamples ==
    [description : DescriptionSamples, minutes : MinutesSamples,
     n_ingredients : CountSamples, n_steps : CountSamples,
     tags : DescriptionTagSamples]

RowInput(row) == [k |-> "row", row |-> row]

CallGenerateAutoDescription ==
    /\ CanCallHelper
    /\ inp.k = "row"
    /\ RecordHelper("generate_auto_description",
                    [err |-> NoError, val |-> generate_auto_description(inp.row)])

\* The table a caller holds who only calls cell and row helpers.
NoTable == SampleTable(<<>>, 1, 0)

\* A caller of the helpers holds a loaded table and a list of expected
\* columns, or a cell, or a row.
InitHelpers ==
    /\ numpyStrict \in BOOLEAN
    /\ cfg = DefaultConfig
    /\ \/ cur \in LoadedTables /\ \E e \in ExpectedSamples : inp = ExpectedInput(e)
       \/ cur = NoTable /\ \E x \in CoercerCells : inp = CellInput(x)
       \/ cur = NoTable /\ \E row \in RowSamples : inp = RowInput(row)
    /\ curFrom = "input"
    /\ op = "none"
    /\ arg = cur
    /\ argFrom = "input"
    /\ df = cur
    /\ ret = [err |-> NoError, df |-> cur]
    /\ calls = 0
    /\ answer = NoOutput

NextHelpers ==
    \/ CallValidateDataframe
    \/ CallToListOrNone
    \/ CallEnsureListOrNone
    \/ CallGenerateAutoDescription

SpecHelpers == InitHelpers /\ [][NextHelpers]_vars

\* C14: validate_dataframe returns True exactly when the table has rows and
\* columns and holds every expected column; otherwise it raises, for an empty
\* table the empty-table error whatever columns are missing, else the
\* missing-columns error naming the absent expected names in the order given.
C14_ValidateDataframe ==
    op = "validate_dataframe"
        => /\ (answer = [err |-> NoError, val |-> True])
                  <=> (cur.n > 0 /\ cur.cols # <<>>
                       /\ \A i \in 1..Len(inp.cols) : HasCol(cur, inp.cols[i]))
           /\ answer.err # NoError => answer.val = NoOutput.val
           /\ (cur.n = 0 \/ cur.cols = <<>>) => answer.err = EmptyFrame
           /\ (cur.n > 0 /\ cur.cols # <<>>
               /\ \E i \in 1..Len(inp.cols) : ~HasCol(cur, inp.cols[i]))
                  => /\ answer.err.kind = "MissingColumns"
                     /\ answer.err.names = SelectSeq(inp.cols, LAMBDA c : c \notin ColSet(cur))

\* C14 witness: the check ran on an empty table that also lacks expected
\* columns.
C14_Witness ==
    /\ op = "validate_dataframe"
    /\ cur.n = 0 /\ cur.cols # <<>>
    /\ \E i \in 1..Len(inp.cols) : ~HasCol(cur, inp.cols[i])
    /\ answer.err = EmptyFrame

\* The description holds a character that is no whitespace.
HasText(d) == d.k = "str" /\ \E i \in 1..Len(d.s) : d.s[i] # " "

DurationPhrases ==
    {"that is quick to prepare", "of moderate duration", "that takes longer to cook"}

\* The duration phrases of a text, with how often each occurs.
DurationsIn(s) == {i \in 1..Len(s) : s[i] \in DurationPhrases}

\* C15: generate_auto_description returns a description that holds a
\* non-whitespace character as it is; for any other row it returns a sentence
\* that starts with "This is a", ends with exactly one period and holds at
\* most one duration phrase: quick under 30 minutes, moderate from 30 to under
\* 90, longer from 90 on, and none when minutes is absent.
C15_AutoDescription ==
    op = "generate_auto_description"
        => /\ answer.err = NoError
           /\ answer.val.k = "str"
           /\ IF HasText(inp.row.description)
              THEN answer.val = inp.row.description
              ELSE /\ Len(answer.val.s) >= 2
                   /\ answer.val.s[1] = "This is a"
                   /\ answer.val.s[Len(answer.val.s)] = "."
                   /\ answer.val.s[Len(answer.val.s) - 1] # "."
                   /\ Cardinality(DurationsIn(answer.val.s)) <= 1
                   /\ inp.row.minutes = Absent => DurationsIn(answer.val.s) = {}
                   /\ inp.row.minutes.k = "int" =>
                          \E i \in DurationsIn(answer.val.s) :
                              answer.val.s[i] =
                                  IF inp.row.minutes.i < 30 THEN "that is quick to prepare"
                                  ELSE IF inp.row.minutes.i >= 90
                                       THEN "that takes longer to cook"
                                       ELSE "of moderate duration"

\* C15 witness: a blank description with 30 minutes gave a sentence of
\* moderate duration.
C15_Witness ==
    /\ op = "generate_auto_description"
    /\ inp.row.description = Str(<<" ">>)
    /\ inp.row.minutes = IntVal(30)
    /\ \E i \in 1..Len(answer.val.s) : answer.val.s[i] = "of moderate duration"

\* C17: for a cell that is absent, a string or a native list, both list
\* coercers return, and return the same list or both None.
C17_CoercersAgree ==
    (op \in {"_to_list_or_none", "_ensure_list_or_none"}
     /\ inp.x.k \in {"absent", "str", "list"})
        => /\ answer.err = NoError
           /\ ~_to_list_or_none(inp.x).raised
           /\ ~_ensure_list_or_none(inp.x).raised
           /\ answer.val = _to_list_or_none(inp.x).val
           /\ answer.val = _ensure_list_or_none(inp.x).val

====
